---- MODULE Spec2Model ----
(***************************************************************************)
(* Model of telegram-bot-weather.py: the webhook handler of a Telegram     *)
(* weather bot and the collaborators it calls (get_weather_data,           *)
(* download_file, stt, tts, send_message, send_voice).                     *)
(*                                                                         *)
(* One invocation of handler is a run of steps, one step per outbound call;*)
(* `calls` is the log of the outbound HTTP requests issued so far.  A      *)
(* collaborator fails the way the source can fail: a subscript on a key    *)
(* that the decoded response lacks raises KeyError, a call with a keyword  *)
(* the callee does not declare raises TypeError.  Nothing catches either,  *)
(* so the exception leaves handler.  The status of an HTTP response is     *)
(* never read by the source, so a send counts as made once it is issued;   *)
(* an Update is taken to carry a Message, as the webhook contract says.    *)
(*                                                                         *)
(* The user-facing literals are Russian in the source; they are written    *)
(* here as English strings of the same meaning.  Coordinates are floats    *)
(* with two decimals, held as integers counting hundredths of a degree.    *)
(***************************************************************************)
EXTENDS Integers, Sequences, FiniteSets, TLC

VARIABLES pc, message, calls, place, response, weather_data, status, exc,
          returned

vars == <<pc, message, calls, place, response, weather_data, status, exc,
          returned>>

----------------------------------------------------------------------------
(* Bounds of the explored inputs *)

MaxBearing == 719
MaxDuration == 32

----------------------------------------------------------------------------
(* Literals of the source *)

DurationLimit == 30

HelpText == "I report the current weather for a place."
UnknownPlaceText == "I do not know the weather in this place."
DurationLimitText == "The voice message must be shorter than 30 seconds"
UnsupportedText == "I cannot answer this type of message."

yc_function_response_500 == [statusCode |-> 500, body |-> ""]

yc_function_response == [statusCode |-> 200, body |-> ""]

(* The dict literal of get_weather_data: the keys are the bearings of the  *)
(* eight compass points. *)
wind_direction ==
    [k \in {0, 45, 90, 135, 180, 225, 270, 315} |->
        CASE k = 0   -> "N"
          [] k = 45  -> "NE"
          [] k = 90  -> "E"
          [] k = 135 -> "SE"
          [] k = 180 -> "S"
          [] k = 225 -> "SW"
          [] k = 270 -> "W"
          [] k = 315 -> "NW"]

(* int(((wind_deg + 22.5) % 360) // 45), computed on doubled values so    *)
(* that 22.5 is the integer 45. *)
wind_direction_key(wind_deg) == (((2 * wind_deg) + 45) % 720) \div 90

----------------------------------------------------------------------------
(* Inputs *)

Texts == {"/start", "/help", "/stop", "Moscow"}
SpokenPlaces == {"Moscow", "Omsk"}
Durations == (DurationLimit - 1)..MaxDuration
Bearings == 0..MaxBearing
Latitudes == {5575, -3387}
Longitudes == {3761, 15120}

Voices == [file_id : {"file1"}, duration : Durations]
Locations == [latitude : Latitudes, longitude : Longitudes]

Opt(S) == {<<>>} \cup {<<x>> : x \in S}

(* A Message is a dict: an optional payload is a key that is present or    *)
(* absent. *)
Message(t, v, l) ==
    [k \in {x \in {"text", "voice", "location"} :
              \/ x = "text" /\ t # <<>>
              \/ x = "voice" /\ v # <<>>
              \/ x = "location" /\ l # <<>>} |->
        CASE k = "text" -> t[1]
          [] k = "voice" -> v[1]
          [] k = "location" -> l[1]]

Messages ==
    {Message(t, v, l) : t \in Opt(Texts), v \in Opt(Voices),
                        l \in Opt(Locations)}

NoMessage == Message(<<>>, <<>>, <<>>)

(* Decoded JSON of the weather provider: complete, or lacking the expected *)
(* fields (the provider's "city not found" body has none of them). *)
ProviderResponses ==
    {[complete |-> TRUE, wind_deg |-> d] : d \in Bearings}
        \cup {[complete |-> FALSE, wind_deg |-> 0]}

NoResponse == [complete |-> FALSE, wind_deg |-> 0 - 1]

----------------------------------------------------------------------------
(* Pure helpers *)

Digit(d) ==
    CASE d = 0 -> "0" [] d = 1 -> "1" [] d = 2 -> "2" [] d = 3 -> "3"
      [] d = 4 -> "4" [] d = 5 -> "5" [] d = 6 -> "6" [] d = 7 -> "7"
      [] d = 8 -> "8" [] d = 9 -> "9"

RECURSIVE NatStr(_)
NatStr(n) == IF n < 10 THEN Digit(n) ELSE NatStr(n \div 10) \o Digit(n % 10)

Abs(n) == IF n < 0 THEN 0 - n ELSE n

(* str() of a float with at most two decimals, h counting hundredths:      *)
(* the shortest repr, with at least one digit after the point. *)
FloatStr(h) ==
    LET a == Abs(h)
        f == a % 100
    IN  (IF h < 0 THEN "-" ELSE "")
          \o NatStr(a \div 100) \o "."
          \o (IF f % 10 = 0 THEN Digit(f \div 10)
                            ELSE Digit(f \div 10) \o Digit(f % 10))

LocationPlaceSwapped(location) ==
    FloatStr(location.longitude) \o "," \o FloatStr(location.latitude)

(* f"{latitude},{longitude}" *)
LocationPlace(location) ==
    FloatStr(location.latitude) \o "," \o FloatStr(location.longitude)

startswith(s, prefix) ==
    /\ Len(s) >= Len(prefix)
    /\ SubSeq(s, 1, Len(prefix)) = prefix

IsCommandStartOnly(m) ==
    /\ "text" \in DOMAIN m
    /\ startswith(m.text, "/")
    /\ m.text \in {"/start"}

(* The two nested conditions that guard the capability reply. *)
IsCommand(m) ==
    /\ "text" \in DOMAIN m
    /\ startswith(m.text, "/")
    /\ m.text \in {"/start", "/help"}

TooLongInclusive(voice) == voice.duration >= DurationLimit

TooLong(voice) == voice.duration > DurationLimit

BranchVoiceFirst(m) ==
    IF IsCommand(m) THEN "help"
    ELSE IF "voice" \in DOMAIN m
         THEN (IF TooLong(m.voice) THEN "voice_too_long" ELSE "voice")
    ELSE IF "text" \in DOMAIN m THEN "text"
    ELSE IF "location" \in DOMAIN m THEN "location"
    ELSE "unsupported"

(* The chain of if-statements of handler, each ending in a return. *)
Branch(m) ==
    IF IsCommand(m) THEN "help"
    ELSE IF "text" \in DOMAIN m THEN "text"
    ELSE IF "voice" \in DOMAIN m
         THEN (IF TooLong(m.voice) THEN "voice_too_long" ELSE "voice")
    ELSE IF "location" \in DOMAIN m THEN "location"
    ELSE "unsupported"

FirstStepSilent(b) ==
    CASE b = "help" -> "send_message"
      [] b = "text" -> "get_weather_data"
      [] b = "voice_too_long" -> "send_message"
      [] b = "voice" -> "getFile"
      [] b = "location" -> "get_weather_data"
      [] b = "unsupported" -> "return"

(* The first outbound call of each branch. *)
FirstStep(b) ==
    CASE b = "help" -> "send_message"
      [] b = "text" -> "get_weather_data"
      [] b = "voice_too_long" -> "send_message"
      [] b = "voice" -> "getFile"
      [] b = "location" -> "get_weather_data"
      [] b = "unsupported" -> "send_message"

NextVoiceStepTtsFirst(step) ==
    CASE step = "getFile" -> "download"
      [] step = "download" -> "tts"
      [] step = "tts" -> "stt"
      [] step = "stt" -> "get_weather_data"
      [] step = "get_weather_data" -> "send_voice"
      [] step = "send_voice" -> "return"

(* The statement order of the voice branch and of download_file. *)
NextVoiceStep(step) ==
    CASE step = "getFile" -> "download"
      [] step = "download" -> "stt"
      [] step = "stt" -> "get_weather_data"
      [] step = "get_weather_data" -> "tts"
      [] step = "tts" -> "send_voice"
      [] step = "send_voice" -> "return"

(* Truth value of a dict: empty is falsy. *)
Truthy(d) == DOMAIN d # {}

NotFound == [k \in {} |-> ""]

FullReport(w) == "Wind " \o w.wind_direction
SpokenReport(p, w) == "Place " \o p

Call(op, arg) == [op |-> op, arg |-> arg]

Replies == {"send_message", "send_voice"}

RECURSIVE Count(_, _)
Count(s, ops) ==
    IF s = <<>> THEN 0
    ELSE (IF Head(s).op \in ops THEN 1 ELSE 0) + Count(Tail(s), ops)

Ops(s) == {s[i].op : i \in 1..Len(s)}

----------------------------------------------------------------------------
(* Steps *)

Init ==
    /\ pc = "idle"
    /\ message = NoMessage
    /\ calls = <<>>
    /\ place = ""
    /\ response = NoResponse
    /\ weather_data = NotFound
    /\ status = "idle"
    /\ exc = ""
    /\ returned = <<>>

Raise(e) ==
    /\ pc' = "done"
    /\ status' = "raised"
    /\ exc' = e

(* The host invokes handler with one Update; nothing survives from the     *)
(* previous invocation. *)
Invoke ==
    /\ pc \in {"idle", "done"}
    /\ \E m \in Messages : message' = m
    /\ pc' = "start"
    /\ calls' = <<>>
    /\ place' = ""
    /\ response' = NoResponse
    /\ weather_data' = NotFound
    /\ status' = "running"
    /\ exc' = ""
    /\ returned' = <<>>

Dispatch ==
    /\ pc = "start"
    /\ LET b == Branch(message)
       IN  /\ pc' = FirstStep(b)
           /\ place' = CASE b = "text" -> message.text
                         [] b = "location" -> LocationPlace(message.location)
                         [] OTHER -> place
    /\ UNCHANGED <<message, calls, response, weather_data, status, exc,
                   returned>>

(* What handler does with the value of get_weather_data in each branch:  *)
(* the next call, or the TypeError of send_voice(text=...), which has no   *)
(* parameter named text and is given no voice. *)
AfterWeather(b, w) ==
    IF b = "voice"
    THEN (IF Truthy(w) THEN NextVoiceStep("get_weather_data")
                       ELSE "TypeError")
    ELSE "send_message"

(* The text argument of the send_message call of each branch. *)
MessageText(b, w) ==
    CASE b = "help" -> HelpText
      [] b = "voice_too_long" -> DurationLimitText
      [] b = "unsupported" -> UnsupportedText
      [] OTHER -> IF Truthy(w) THEN FullReport(w) ELSE UnknownPlaceText

(* download_file, first request: getFile; the File object is read from     *)
(* response["result"]["file_path"]. *)
GetFile ==
    /\ pc = "getFile"
    /\ calls' = Append(calls, Call("getFile", message.voice.file_id))
    /\ \E ok \in BOOLEAN :
          IF ok
          THEN /\ pc' = NextVoiceStep("getFile")
               /\ UNCHANGED <<status, exc>>
          ELSE Raise("KeyError")
    /\ UNCHANGED <<message, place, response, weather_data, returned>>

(* download_file, second request: the content of the file. *)
DownloadContent ==
    /\ pc = "download"
    /\ calls' = Append(calls, Call("download", "file_path"))
    /\ pc' = NextVoiceStep("download")
    /\ UNCHANGED <<message, place, response, weather_data, status, exc,
                   returned>>

(* stt: the recognised text is response["result"]. *)
Stt ==
    /\ pc = "stt"
    /\ calls' = Append(calls, Call("stt", "voice_content"))
    /\ \E r \in Opt(SpokenPlaces) :
          IF r # <<>>
          THEN /\ place' = r[1]
               /\ pc' = NextVoiceStep("stt")
               /\ UNCHANGED <<status, exc>>
          ELSE /\ Raise("KeyError")
               /\ UNCHANGED place
    /\ UNCHANGED <<message, response, weather_data, returned>>

(* The continuation of handler once the weather lookup gave w. *)
Continue(w) ==
    LET nxt == AfterWeather(Branch(message), w)
    IN  IF nxt = "TypeError"
        THEN Raise("TypeError")
        ELSE /\ pc' = nxt
             /\ UNCHANGED <<status, exc>>

(* get_weather_data, and the test of its value in handler. *)
GetWeather ==
    /\ pc = "get_weather_data"
    /\ calls' = Append(calls, Call("get_weather_data", place))
    /\ \E r \in ProviderResponses :
          /\ response' = r
          /\ IF ~r.complete
             THEN /\ Raise("KeyError")
                  /\ UNCHANGED weather_data
             ELSE IF wind_direction_key(r.wind_deg) \notin DOMAIN wind_direction
             THEN /\ Raise("KeyError")
                  /\ UNCHANGED weather_data
             ELSE LET w == [wind_direction |->
                              wind_direction[wind_direction_key(r.wind_deg)]]
                  IN  /\ weather_data' = w
                      /\ Continue(w)
    /\ UNCHANGED <<message, place, returned>>

(* handler with get_weather_data replaced by a stub that returns NotFound  *)
(* or a populated summary. *)
StubWeather ==
    /\ pc = "get_weather_data"
    /\ calls' = Append(calls, Call("get_weather_data", place))
    /\ \E w \in {NotFound, [wind_direction |-> "N"]} :
          /\ weather_data' = w
          /\ Continue(w)
    /\ UNCHANGED <<message, place, response, returned>>

Tts ==
    /\ pc = "tts"
    /\ calls' = Append(calls, Call("tts", SpokenReport(place, weather_data)))
    /\ pc' = NextVoiceStep("tts")
    /\ UNCHANGED <<message, place, response, weather_data, status, exc,
                   returned>>

SendVoice ==
    /\ pc = "send_voice"
    /\ calls' = Append(calls, Call("send_voice", "yc_tts_voice"))
    /\ pc' = NextVoiceStep("send_voice")
    /\ UNCHANGED <<message, place, response, weather_data, status, exc,
                   returned>>

SendMessage ==
    /\ pc = "send_message"
    /\ calls' = Append(calls, Call("send_message",
                                   MessageText(Branch(message), weather_data)))
    /\ pc' = "return"
    /\ UNCHANGED <<message, place, response, weather_data, status, exc,
                   returned>>

(* return yc_function_response *)
Return ==
    /\ pc = "return"
    /\ pc' = "done"
    /\ status' = "returned"
    /\ returned' = <<yc_function_response>>
    /\ UNCHANGED <<message, calls, place, response, weather_data, exc>>

Next ==
    \/ Invoke
    \/ Dispatch
    \/ GetFile
    \/ DownloadContent
    \/ Stt
    \/ GetWeather
    \/ Tts
    \/ SendVoice
    \/ SendMessage
    \/ Return

Spec == Init /\ [][Next]_vars

StubNext ==
    \/ Invoke
    \/ Dispatch
    \/ GetFile
    \/ DownloadContent
    \/ Stt
    \/ StubWeather
    \/ Tts
    \/ SendVoice
    \/ SendMessage
    \/ Return

StubSpec == Init /\ [][StubNext]_vars

----------------------------------------------------------------------------
(* Claims *)

(* C1, as stated: every invocation, whatever the collaborators answer,     *)
(* ends having sent exactly one reply. *)
C1_ExactlyOneReplyAlways ==
    pc = "done" => Count(calls, Replies) = 1

(* C1, amended: an invocation never sends two replies; it ends having sent *)
(* exactly one reply when handler returns and none when an exception       *)
(* leaves handler. *)
C1_OneReplyWhenReturned ==
    /\ Count(calls, Replies) <= 1
    /\ (pc = "done" /\ status = "returned") => Count(calls, Replies) = 1
    /\ (pc = "done" /\ status = "raised") => Count(calls, Replies) = 0

C1_Witness ==
    /\ pc = "done"
    /\ status = "returned"
    /\ Count(calls, Replies) = 1
    /\ "send_voice" \in Ops(calls)

(* C2: when the weather lookup returns NotFound, the text, the voice       *)
(* (duration <= 30) and the location variants all end with the "unknown    *)
(* place" reply sent and handler returning. *)
C2_NotFoundGivesUnknownPlaceReply ==
    (/\ pc = "done"
     /\ "get_weather_data" \in Ops(calls)
     /\ ~Truthy(weather_data))
        => /\ status = "returned"
           /\ calls[Len(calls)].op \in Replies
           /\ calls[Len(calls)].arg = UnknownPlaceText

(* C3: a provider response that lacks the expected fields makes            *)
(* get_weather_data return NotFound as a value; nothing is raised. *)
C3_MissingFieldsSignalNotFound ==
    ("get_weather_data" \in Ops(calls) /\ ~response.complete)
        => /\ status # "raised"
           /\ ~Truthy(weather_data)

(* C4: for every integer bearing b the compass mapping yields, without     *)
(* failing, the label of sector floor(((b + 22.5) mod 360) / 45) in the    *)
(* order N, NE, E, SE, S, SW, W, NW; b and b + 360 give the same label. *)
C4_CompassLabelOfSector ==
    ("get_weather_data" \in Ops(calls) /\ response.complete)
        => /\ status # "raised"
           /\ Truthy(weather_data)
           /\ weather_data.wind_direction =
                 <<"N", "NE", "E", "SE", "S", "SW", "W", "NW">>
                    [((((2 * response.wind_deg) + 45) % 720) \div 90) + 1]

(* C5, as stated: every invocation returns {statusCode: 200, body: ''},    *)
(* also when a collaborator failed. *)
C5_AlwaysReturnsFixedResponse ==
    pc = "done" => returned = <<[statusCode |-> 200, body |-> ""]>>

(* C5, amended: an invocation that returns, returns {statusCode: 200,      *)
(* body: ''} whichever branch ran; an invocation in which a collaborator   *)
(* call raised returns nothing, the exception leaves handler. *)
C5_ReturnsFixedResponseUnlessRaised ==
    pc = "done" =>
        IF status = "returned"
        THEN returned = <<[statusCode |-> 200, body |-> ""]>>
        ELSE status = "raised" /\ returned = <<>>

C5_Witness ==
    /\ pc = "done"
    /\ status = "returned"
    /\ returned = <<[statusCode |-> 200, body |-> ""]>>
    /\ "get_weather_data" \in Ops(calls)

(* C6: a voice payload longer than 30 seconds gets exactly one text reply, *)
(* the duration-limit message, and no other call; a voice payload of at    *)
(* most 30 seconds is not rejected: its first call is the file lookup. *)
C6_LongVoiceRejected ==
    ("text" \notin DOMAIN message /\ "voice" \in DOMAIN message) =>
        IF message.voice.duration > 30
        THEN /\ Len(calls) <= 1
             /\ \A i \in 1..Len(calls) :
                   calls[i] = Call("send_message", DurationLimitText)
             /\ pc = "done" => Len(calls) = 1 /\ status = "returned"
        ELSE /\ "send_message" \notin Ops(calls)
             /\ calls # <<>> => calls[1].op = "getFile"
             /\ pc = "done" => calls # <<>>

C6_Witness ==
    /\ pc = "done"
    /\ DOMAIN message = {"voice"}
    /\ message.voice.duration = 31
    /\ calls = <<Call("send_message", DurationLimitText)>>

(* C7: a text that is exactly "/start" or "/help" gets exactly one text    *)
(* reply, the capability description, no other call, and handler returns. *)
C7_CommandGetsCapabilityReply ==
    ("text" \in DOMAIN message /\ message.text \in {"/start", "/help"}) =>
        /\ Len(calls) <= 1
        /\ \A i \in 1..Len(calls) : calls[i] = Call("send_message", HelpText)
        /\ status # "raised"
        /\ pc = "done" => Len(calls) = 1 /\ status = "returned"

C7_Witness ==
    /\ pc = "done"
    /\ "text" \in DOMAIN message
    /\ message.text = "/help"
    /\ calls = <<Call("send_message", HelpText)>>

(* C8: a location payload makes exactly one weather lookup, with the place *)
(* "<lat>,<lon>" (latitude first, one comma, no space), and is answered    *)
(* by send_message, never by send_voice. *)
C8_LocationPlaceDescriptor ==
    LET shown(h) == CASE h = 5575 -> "55.75"
                      [] h = 0 - 3387 -> "-33.87"
                      [] h = 3761 -> "37.61"
                      [] h = 15120 -> "151.2"
    IN  DOMAIN message = {"location"} =>
          /\ Ops(calls) \subseteq {"get_weather_data", "send_message"}
          /\ Count(calls, {"get_weather_data"}) <= 1
          /\ pc \notin {"start", "get_weather_data"}
                => Count(calls, {"get_weather_data"}) = 1
          /\ \A i \in 1..Len(calls) :
                calls[i].op = "get_weather_data"
                   => calls[i].arg = shown(message.location.latitude) \o ","
                                       \o shown(message.location.longitude)
          /\ (pc = "done" /\ status = "returned")
                => Count(calls, {"send_message"}) = 1

C8_Witness ==
    /\ pc = "done"
    /\ status = "returned"
    /\ message = [location |-> [latitude |-> 5575, longitude |-> 3761]]
    /\ calls[1] = Call("get_weather_data", "55.75,37.61")
    /\ calls[2].op = "send_message"

(* C9: in the voice branch with duration <= 30 the calls are made in the   *)
(* order getFile, download, stt, get_weather_data, tts, send_voice, each   *)
(* at most once and each after the previous one; once a step has failed no *)
(* later step starts and no reply is sent. *)
C9_VoicePipelineOrder ==
    LET order == <<"getFile", "download", "stt", "get_weather_data", "tts",
                   "send_voice">>
    IN  (/\ "text" \notin DOMAIN message
         /\ "voice" \in DOMAIN message
         /\ message.voice.duration <= 30) =>
          /\ Len(calls) <= Len(order)
          /\ \A i \in 1..Len(calls) : calls[i].op = order[i]
          /\ status = "raised" => pc = "done" /\ Count(calls, Replies) = 0
          /\ pc = "download" => calls[Len(calls)].op = "getFile"

C9_Witness ==
    /\ pc = "done"
    /\ status = "returned"
    /\ DOMAIN message = {"voice"}
    /\ Len(calls) = 6
    /\ calls[6].op = "send_voice"

(* C10: exactly one branch runs, the first that applies in the order       *)
(* command, text, voice, location, unsupported; a text that is not a       *)
(* command, "/"-prefixed or not, is the place of the weather lookup; a     *)
(* message with several payloads makes no call of a lower branch. *)
C10_BranchPriority ==
    LET hasText == "text" \in DOMAIN message
        hasVoice == "voice" \in DOMAIN message
        hasLocation == "location" \in DOMAIN message
        fixed == {HelpText, DurationLimitText, UnsupportedText}
        command == hasText /\ message.text \in {"/start", "/help"}
    IN  /\ command =>
              \A i \in 1..Len(calls) : calls[i] = Call("send_message", HelpText)
        /\ (hasText /\ ~command) =>
              /\ Ops(calls) \subseteq {"get_weather_data", "send_message"}
              /\ \A i \in 1..Len(calls) :
                    IF calls[i].op = "get_weather_data"
                    THEN calls[i].arg = message.text
                    ELSE calls[i].arg \notin fixed
              /\ pc = "done" => calls # <<>>
        /\ (~hasText /\ hasVoice) =>
              /\ Ops(calls) \subseteq {"send_message", "getFile", "download",
                                       "stt", "get_weather_data", "tts",
                                       "send_voice"}
              /\ \A i \in 1..Len(calls) :
                    /\ calls[i].op = "get_weather_data"
                          => calls[i].arg \in SpokenPlaces
                    /\ calls[i].op = "send_message"
                          => calls[i].arg = DurationLimitText
        /\ (~hasText /\ ~hasVoice /\ hasLocation) =>
              /\ Ops(calls) \subseteq {"get_weather_data", "send_message"}
              /\ \A i \in 1..Len(calls) :
                    calls[i].op = "send_message" => calls[i].arg \notin fixed
        /\ (~hasText /\ ~hasVoice /\ ~hasLocation) =>
              /\ \A i \in 1..Len(calls) :
                    calls[i] = Call("send_message", UnsupportedText)
              /\ pc = "done" => Len(calls) = 1

C10_Witness ==
    /\ pc = "done"
    /\ DOMAIN message = {"text", "voice", "location"}
    /\ message.text = "/stop"
    /\ calls[1] = Call("get_weather_data", "/stop")
    /\ Len(calls) = 2

====
